---- MODULE Spec2Model ----
(***************************************************************************)
(* A model of the TourVisor gateway client (src/tourvisor.py): the         *)
(* reference resolver (find_city / find_country), the result flattener     *)
(* (_flatten_tours), the search orchestrator (search_tours) and the        *)
(* smart-search facade (search_tours_smart).                               *)
(*                                                                         *)
(* Text is a sequence of one-character strings.  A Python dict is a        *)
(* record / function whose DOMAIN is the set of keys present.  A loosely   *)
(* typed JSON scalar is a tagged record [t, v] (PyInt, PyStr, PyNone).     *)
(***************************************************************************)
EXTENDS Integers, Sequences, FiniteSets, TLC

VARIABLES
    \* ---- reference resolver (find_city / find_country) ----
    fpc,            \* "start" | "done"
    fkind,          \* which resolver ran: "city" | "country"
    query,          \* the city_name / country_name argument
    all_refs,       \* the response of get_references
    find_result,    \* the returned dict
    \* ---- result flattener (_flatten_tours) ----
    lpc,            \* "start" | "done"
    search_result,  \* the raw result handed to _flatten_tours
    limit,          \* the limit argument (NoLimit models None)
    flat_result,    \* [raised, tours]
    \* ---- search orchestrator and smart-search facade ----
    entry,          \* the function called: "search_tours" | "search_tours_smart"
    pc,             \* the upstream call the invocation is about to make, or "done"
    city_name,      \* arguments of search_tours_smart
    country_name,
    params,         \* the params argument (extra params of the smart search)
    smart_limit,    \* the limit argument of search_tours_smart
    city_result,    \* locals of search_tours_smart
    country_result,
    search_params,
    clean_params,   \* locals of search_tours
    search_response,
    request_id,
    attempt,
    status_response,
    slept,          \* total time suspended in asyncio.sleep
    calls,          \* the upstream calls made so far, in order
    tours_result,   \* what search_tours returned
    smart_result,   \* what search_tours_smart returned
    \* ---- upstream request executor (_make_request) ----
    rpc,            \* "start" | "done"
    endpoint,       \* the endpoint argument
    req_params,     \* the params argument
    outcome,        \* what the outbound HTTP GET does
    request_sent,   \* the query parameters of the outbound call
    ret,            \* [raised, value]: what _make_request gives its caller
    \* ---- parameter coercion (_convert_params) ----
    kpc,            \* "start" | "done"
    kparams,        \* the params argument, as it is after the call
    converted,      \* [raised, value]: the result of _convert_params(params)
    reconverted,    \* [raised, value]: _convert_params applied to that result
    \* ---- HTTP endpoints (server.py) ----
    hpc,            \* "start" | "done"
    route,          \* the endpoint requested
    data,           \* the parsed request body
    client_calls,   \* the client functions the handler called
    http_response,  \* [status, detail]
    \* ---- concurrent search_tours invocations on one client ----
    cpc,            \* per invocation: "submit" | "poll" | "fetch" | "done"
    chandle,        \* per invocation: its local request_id
    cattempt,       \* per invocation: its local attempt
    issued,         \* per invocation: the handle the provider gave its submit
    ccalls          \* the upstream calls of all invocations, in order

resolverVars == <<fpc, fkind, query, all_refs, find_result>>
flattenVars == <<lpc, search_result, limit, flat_result>>
smartVars == <<entry, city_name, country_name, params, smart_limit, city_result,
               country_result, search_params, smart_result>>
searchVars == <<pc, clean_params, search_response, request_id, attempt,
                status_response, slept, calls, tours_result>>

requestVars == <<rpc, endpoint, req_params, outcome, request_sent, ret>>
convertVars == <<kpc, kparams, converted, reconverted>>
serverVars == <<hpc, route, data, client_calls, http_response>>
concVars == <<cpc, chandle, cattempt, issued, ccalls>>
otherVars == <<requestVars, convertVars, serverVars, concVars>>

vars == <<resolverVars, flattenVars, smartVars, searchVars, otherVars>>

-----------------------------------------------------------------------------
(* Bounds of the model *)

MaxQueryLen == 2
MaxEntries == 6

-----------------------------------------------------------------------------
(* Text *)

Alphabet == {"a", "A", "b", " "}

\* str.lower() on one character
LowerChar(c) == IF c = "A" THEN "a" ELSE c

\* str.lower()
Lower(s) == [i \in 1..Len(s) |-> LowerChar(s[i])]

RECURSIVE LStrip(_)
LStrip(s) == IF s # <<>> /\ Head(s) = " " THEN LStrip(Tail(s)) ELSE s

RECURSIVE RStrip(_)
RStrip(s) ==
    IF s # <<>> /\ s[Len(s)] = " " THEN RStrip(SubSeq(s, 1, Len(s) - 1)) ELSE s

\* str.strip()
Strip(s) == RStrip(LStrip(s))

\* Python's `sub in s`
Contains(s, sub) ==
    \E i \in 1..(Len(s) - Len(sub) + 1) : SubSeq(s, i, i + Len(sub) - 1) = sub

\* int() of a decimal string
IntOf(s) == CHOOSE n \in 0..99 : ToString(n) = s

\* Python's seq[lo:hi] (0-based, hi exclusive) for 0 <= lo <= hi
Slice(seq, lo, hi) ==
    SubSeq(seq, lo + 1, IF hi < Len(seq) THEN hi ELSE Len(seq))

\* the elements of seq at the positions in keep, from position i on, in order
RECURSIVE SelectIdx(_, _, _)
SelectIdx(seq, keep, i) ==
    IF i > Len(seq) THEN <<>>
    ELSE (IF i \in keep THEN <<seq[i]>> ELSE <<>>) \o SelectIdx(seq, keep, i + 1)

-----------------------------------------------------------------------------
(* Reference resolver: find_city / find_country *)

MsgCitiesDefault == <<"city list fetch failed">>
MsgCountriesDefault == <<"country list fetch failed">>
MsgSuggestion == <<"try another name">>

CityMsg(name) == <<"City '">> \o name \o <<"' not found">>
CountryMsg(name) == <<"Country '">> \o name \o <<"' not found">>

\* the resolver's own text in place of the upstream one
ErrMsgDefault(resp, default) == default

\* dict.get("errormessage", default)
ErrMsgOr(resp, default) ==
    IF "errormessage" \in DOMAIN resp THEN resp.errormessage ELSE default

CityRecord(city) ==
    [id |-> IntOf(city.id), name |-> city.name, name_from |-> city.namefrom]

CountryRecord(country) == [id |-> IntOf(country.id), name |-> country.name]

\* the exact pass without case-folding the entry's name
ExactMatchesCaseSensitive(entries, name_lower) ==
    SelectIdx(entries, {i \in 1..Len(entries) : entries[i].name = name_lower}, 1)

\* the exact pass: entries whose case-folded name equals the normalized query
ExactMatches(entries, name_lower) ==
    SelectIdx(entries,
              {i \in 1..Len(entries) : Lower(entries[i].name) = name_lower}, 1)

\* the partial pass: entries whose case-folded name contains the normalized query
PartialMatches(entries, name_lower) ==
    SelectIdx(entries,
              {i \in 1..Len(entries) : Contains(Lower(entries[i].name), name_lower)}, 1)

\* matches[0:4]: the slice taken one position too early
AlternativesFromHead(matches) ==
    IF Len(matches) > 1 THEN Slice(matches, 0, 4) ELSE <<>>

\* matches[1:5] if len(matches) > 1 else []
Alternatives(matches) ==
    IF Len(matches) > 1 THEN Slice(matches, 1, 5) ELSE <<>>

find_city(all_cities, name) ==
    IF all_cities.iserror
    THEN [found |-> FALSE, error |-> "api_error",
          message |-> ErrMsgOr(all_cities, MsgCitiesDefault)]
    ELSE
      LET city_name_lower == Strip(Lower(name))
          departures == all_cities.lists
          exact == ExactMatches(departures, city_name_lower)
          partial == PartialMatches(departures, city_name_lower)
          matches == [i \in 1..Len(partial) |-> CityRecord(partial[i])]
      IN  IF exact # <<>>
          THEN [found |-> TRUE, city |-> CityRecord(exact[1])]
          ELSE IF matches # <<>>
          THEN [found |-> TRUE, city |-> matches[1],
                alternatives |-> Alternatives(matches)]
          ELSE [found |-> FALSE, message |-> CityMsg(name),
                suggestion |-> MsgSuggestion]

find_country(all_countries, name) ==
    IF all_countries.iserror
    THEN [found |-> FALSE, error |-> "api_error",
          message |-> ErrMsgOr(all_countries, MsgCountriesDefault)]
    ELSE
      LET country_name_lower == Strip(Lower(name))
          countries == all_countries.lists
          exact == ExactMatches(countries, country_name_lower)
          partial == PartialMatches(countries, country_name_lower)
          matches == [i \in 1..Len(partial) |-> CountryRecord(partial[i])]
      IN  IF exact # <<>>
          THEN [found |-> TRUE, country |-> CountryRecord(exact[1])]
          ELSE IF matches # <<>>
          THEN [found |-> TRUE, country |-> matches[1],
                alternatives |-> Alternatives(matches)]
          ELSE [found |-> FALSE, message |-> CountryMsg(name)]

-----------------------------------------------------------------------------
(* Loosely typed JSON values *)

PyNone == [t |-> "none"]
PyNum(n) == [t |-> "num", v |-> n]
PyStr(str) == [t |-> "str", v |-> str]
PyDict(d) == [t |-> "dict", v |-> d]
PyList(l) == [t |-> "list", v |-> l]

\* isinstance(x, dict)
IsDict(x) == x.t = "dict"

\* dict.get(key) of a record: None when the key is absent
Get(d, key) == IF key \in DOMAIN d THEN d[key] ELSE PyNone

\* float(x): [ok |-> TRUE, v |-> number] or [ok |-> FALSE] when it raises
Float(x) ==
    IF x.t = "num" THEN [ok |-> TRUE, v |-> x.v]
    ELSE IF x.t = "str" /\ (\E n \in 0..99 : ToString(n) = x.v)
    THEN [ok |-> TRUE, v |-> IntOf(x.v)]
    ELSE [ok |-> FALSE]

-----------------------------------------------------------------------------
(* Result flattener: _flatten_tours *)

PriceDefault == 999999

\* key=lambda x: float(x.get("price", 999999))
PriceKey(x) ==
    Float(IF "price" \in DOMAIN x THEN x.price ELSE PyNum(PriceDefault))

\* list.sort(key=...): stable, ascending; insert x after the keys <= its key
RECURSIVE InsertByKey(_, _)
InsertByKey(sorted, x) ==
    IF sorted = <<>> THEN <<x>>
    ELSE LET last == sorted[Len(sorted)]
         IN  IF PriceKey(last).v <= PriceKey(x).v THEN Append(sorted, x)
             ELSE Append(InsertByKey(SubSeq(sorted, 1, Len(sorted) - 1), x), last)

RECURSIVE SortByPrice(_, _)
SortByPrice(seq, n) ==
    IF n = 0 THEN <<>> ELSE InsertByKey(SortByPrice(seq, n - 1), seq[n])

\* hotel.get("tours", {}) down to the list the loop iterates over
ToursList(hotel) ==
    LET tours_data == IF "tours" \in DOMAIN hotel THEN hotel.tours ELSE PyDict(<<>>)
        tours_list == IF IsDict(tours_data)
                      THEN (IF "tour" \in DOMAIN tours_data.v
                            THEN tours_data.v.tour ELSE PyList(<<>>))
                      ELSE tours_data
    IN  IF IsDict(tours_list) THEN <<tours_list.v>> ELSE tours_list.v

\* search_result.get("data", {}).get("result", {}).get("hotel", [])
HotelsList(result) ==
    LET hotels == IF "hotel" \in DOMAIN result THEN result.hotel ELSE PyList(<<>>)
    IN  IF IsDict(hotels) THEN <<hotels.v>> ELSE hotels.v

FlatTour(hotel, tour) ==
    [hotelcode |-> Get(hotel, "hotelcode"),
     hotelname |-> Get(hotel, "hotelname"),
     tourid |-> Get(tour, "tourid"),
     price |-> Get(tour, "price")]

HotelTours(hotel) ==
    LET tours_list == ToursList(hotel)
    IN  [i \in 1..Len(tours_list) |-> FlatTour(hotel, tours_list[i])]

RECURSIVE FlatAll(_, _)
FlatAll(hotels, i) ==
    IF i > Len(hotels) THEN <<>>
    ELSE HotelTours(hotels[i]) \o FlatAll(hotels, i + 1)

\* limit is falsy when it is None or 0
Truthy(lim) == lim.t = "num" /\ lim.v # 0

\* flat_tours[:limit] if limit else flat_tours
Truncate(flat_tours, lim) ==
    IF Truthy(lim) THEN Slice(flat_tours, 0, lim.v) ELSE flat_tours

flatten_tours(result, lim) ==
    IF result.iserror THEN [raised |-> FALSE, tours |-> <<>>]
    ELSE
      LET flat_tours == FlatAll(HotelsList(result), 1)
      IN  IF \E i \in 1..Len(flat_tours) : ~PriceKey(flat_tours[i]).ok
          THEN [raised |-> TRUE, tours |-> <<>>]
          ELSE [raised |-> FALSE,
                tours |-> Truncate(SortByPrice(flat_tours, Len(flat_tours)), lim)]

-----------------------------------------------------------------------------
(* Parameter coercion: _convert_params *)

IntParams ==
    {"departure", "country", "adults", "child",
     "childage1", "childage2", "childage3",
     "nightsfrom", "nightsto", "stars", "rating",
     "pricefrom", "priceto", "currency", "hotelcode",
     "tourid", "city", "items", "maxdays"}

\* a finite float with its integral part, and the float infinity that
\* json.loads yields for 1e999 or Infinity
PyFloat(whole, frac) == [t |-> "float", whole |-> whole, frac |-> frac]
PyInf == [t |-> "inf"]

\* int(value): [ok |-> TRUE, v |-> integer], or [ok |-> FALSE, exc |-> the
\* exception it raises]
ToInt(x) ==
    IF x.t = "num" THEN [ok |-> TRUE, v |-> x.v]
    ELSE IF x.t = "str" /\ (\E n \in 0..99 : ToString(n) = x.v)
    THEN [ok |-> TRUE, v |-> IntOf(x.v)]
    ELSE IF x.t = "float" THEN [ok |-> TRUE, v |-> x.whole]
    ELSE IF x.t = "str" THEN [ok |-> FALSE, exc |-> "ValueError"]
    ELSE IF x.t = "inf" THEN [ok |-> FALSE, exc |-> "OverflowError"]
    ELSE [ok |-> FALSE, exc |-> "TypeError"]

\* the exceptions of int(value) that the except clause does not catch
convert_raises(ps) ==
    \E key \in DOMAIN ps :
        /\ key \in IntParams
        /\ ps[key] # PyNone
        /\ ~ToInt(ps[key]).ok
        /\ ToInt(ps[key]).exc \notin {"ValueError", "TypeError"}

convert_params(ps) ==
    [key \in DOMAIN ps |->
        IF key \in IntParams /\ ps[key] # PyNone
        THEN (IF ToInt(ps[key]).ok THEN PyNum(ToInt(ps[key]).v) ELSE ps[key])
        ELSE ps[key]]

\* a call of _convert_params: the exception escapes, or the new dict returns
convert_call(ps) ==
    IF convert_raises(ps) THEN [raised |-> TRUE]
    ELSE [raised |-> FALSE, value |-> convert_params(ps)]

-----------------------------------------------------------------------------
(* Search orchestrator: search_tours *)

max_attempts == 10

\* {**base, **over}: the keys of both, the later mapping winning
Merge(base, over) ==
    [key \in DOMAIN base \cup DOMAIN over |->
        IF key \in DOMAIN over THEN over[key] ELSE base[key]]

\* dict.get(key, default)
GetOr(d, key, default) == IF key \in DOMAIN d THEN d[key] ELSE default

\* `not x` for a JSON scalar
Falsy(x) == x = PyNone \/ x = PyStr("") \/ x = PyNum(0)

\* search_response.get("result", {}).get("requestid")
RequestIdOf(resp) == Get(GetOr(resp, "result", <<>>), "requestid")

NoRequestId(resp, sent) ==
    [iserror |-> TRUE, errormessage |-> <<"no request id received">>,
     api_response |-> resp, sent_params |-> sent]

ListCall(kind) == [endpoint |-> "list.php", params |-> [type |-> PyStr(kind)]]
SearchCall(ps) == [endpoint |-> "search.php", params |-> ps]
StatusCall(id) ==
    [endpoint |-> "result.php", params |-> [requestid |-> id, type |-> PyStr("status")]]
ResultCall(id) ==
    [endpoint |-> "result.php",
     params |-> [requestid |-> id, type |-> PyStr("result"),
                 page |-> PyNum(1), onpage |-> PyNum(25)]]

\* while attempt < max_attempts, with the bound off by one
LoopContinuesInclusive(att) == att <= max_attempts

\* while attempt < max_attempts
LoopContinues(att) == att < max_attempts

\* a suspension of 3 before every attempt
SleepBeforeFlat(att) == 3

\* asyncio.sleep(3 if attempt == 0 else 2)
SleepBefore(att) == IF att = 0 THEN 3 ELSE 2

\* the poll loop body where an error response is retried like "not finished"
PollOutcomeRetryingErrors(resp) ==
    LET status == GetOr(resp, "status", <<>>)
    IN  IF ~resp.iserror /\ (Get(status, "state") = PyStr("finished")
                             \/ GetOr(status, "timepassed", PyNum(0)).v > 7)
        THEN "break" ELSE "continue"

\* the poll loop body where a counter equal to 7 already ends the loop
PollOutcomeFromSeven(resp) ==
    LET status == GetOr(resp, "status", <<>>)
    IN  IF resp.iserror THEN "return"
        ELSE IF Get(status, "state") = PyStr("finished")
                \/ GetOr(status, "timepassed", PyNum(0)).v >= 7
        THEN "break" ELSE "continue"

\* the poll loop body after the status response: return it, break, or go on
PollOutcome(resp) ==
    LET status == GetOr(resp, "status", <<>>)
    IN  IF resp.iserror THEN "return"
        ELSE IF Get(status, "state") = PyStr("finished")
                \/ GetOr(status, "timepassed", PyNum(0)).v > 7
        THEN "break" ELSE "continue"

-----------------------------------------------------------------------------
(* Smart-search facade: search_tours_smart *)

DefaultLimit == 10

\* the city lookup where a failed resolution still goes on to the country
AfterCityIgnoringFailure(res) == "find_country"

\* if not city_result.get("found"): return ...
AfterCity(res) == IF ~res.found THEN "done" ELSE "find_country"

\* if not country_result.get("found"): return ...
AfterCountry(res) == IF ~res.found THEN "done" ELSE "submit"

CityNotFound(name, res) ==
    [error |-> "city_not_found", message |-> CityMsg(name), city_search |-> res]

CountryNotFound(name, res) ==
    [error |-> "country_not_found", message |-> CountryMsg(name),
     country_search |-> res]

\* {"departure": city_id, "country": country_id, **params}
SmartSearchParams(city_id, country_id, extra) ==
    Merge([departure |-> PyNum(city_id), country |-> PyNum(country_id)], extra)

\* search_tours_smart from the return of search_tours to its own return
SmartReturn(tr) ==
    IF tr.iserror
    THEN [success |-> FALSE, error |-> "search_failed",
          city |-> city_result.city, country |-> country_result.country,
          search_params |-> search_params, error_details |-> tr]
    ELSE
      LET flat == flatten_tours(tr, smart_limit)
          status == GetOr(tr, "status", <<>>)
      IN  IF flat.raised THEN [raised |-> TRUE]
          ELSE [success |-> TRUE,
                city |-> city_result.city, country |-> country_result.country,
                search_params |-> search_params,
                status |-> [hotels_found |-> GetOr(status, "hotelsfound", PyNum(0)),
                            tours_found |-> GetOr(status, "toursfound", PyNum(0)),
                            tours_shown |-> Len(flat.tours),
                            min_price |-> GetOr(status, "minprice", PyNum(0)),
                            state |-> GetOr(status, "state", PyStr("unknown"))],
                tours |-> flat.tours,
                hotels |-> tr]

-----------------------------------------------------------------------------
(* The resolver's inputs and its specification *)

\* all texts of length at most n over the alphabet
RECURSIVE TextsUpTo(_)
TextsUpTo(n) ==
    IF n = 0 THEN {<<>>}
    ELSE LET shorter == TextsUpTo(n - 1)
         IN  shorter \cup {Append(s, c) : s \in shorter, c \in Alphabet}

Queries == TextsUpTo(MaxQueryLen)

\* the names the provider's reference entries carry
EntryNames == {<<"a">>, <<"A", "b">>, <<"b">>}

\* a reference entry: the provider's code is a decimal string, unique in its list
RefEntry(i, n) == [id |-> ToString(i), name |-> n, namefrom |-> <<"from ">> \o n]

RefLists ==
    UNION {{[i \in 1..k |-> RefEntry(i, names[i])] : names \in [1..k -> EntryNames]}
           : k \in 0..MaxEntries}

\* an error envelope returned by _make_request
ErrorEnvelopes ==
    {[iserror |-> TRUE, errormessage |-> <<"TourVisor API request timeout (30 s)">>],
     [iserror |-> TRUE, errormessage |-> <<"HTTP 500">>]}

RefResponses ==
    ErrorEnvelopes
    \cup {[iserror |-> TRUE]}
    \cup {[iserror |-> FALSE, lists |-> l] : l \in RefLists}

NoResult == [found |-> FALSE]

ResolverIdle ==
    /\ fpc = "idle"
    /\ fkind = "none"
    /\ query = <<>>
    /\ all_refs = [iserror |-> FALSE, lists |-> <<>>]
    /\ find_result = NoResult

NoResponse == [iserror |-> FALSE]

SearchIdle ==
    /\ entry = "none"
    /\ pc = "idle"
    /\ city_name = <<>>
    /\ country_name = <<>>
    /\ params = <<>>
    /\ smart_limit = PyNone
    /\ city_result = NoResult
    /\ country_result = NoResult
    /\ search_params = <<>>
    /\ clean_params = <<>>
    /\ search_response = NoResponse
    /\ request_id = PyNone
    /\ attempt = 0
    /\ status_response = NoResponse
    /\ slept = 0
    /\ calls = <<>>
    /\ tours_result = NoResponse
    /\ smart_result = <<>>

FlattenIdle ==
    /\ lpc = "idle"
    /\ search_result = [iserror |-> FALSE]
    /\ limit = [t |-> "none"]
    /\ flat_result = [raised |-> FALSE, tours |-> <<>>]

RequestIdle ==
    /\ rpc = "idle"
    /\ endpoint = "none"
    /\ req_params = <<>>
    /\ outcome = [kind |-> "none"]
    /\ request_sent = <<>>
    /\ ret = [raised |-> FALSE]

ConvertIdle ==
    /\ kpc = "idle"
    /\ kparams = <<>>
    /\ converted = [raised |-> FALSE]
    /\ reconverted = [raised |-> FALSE]

ServerIdle ==
    /\ hpc = "idle"
    /\ route = "none"
    /\ data = <<>>
    /\ client_calls = <<>>
    /\ http_response = [status |-> 0]

ConcIdle ==
    /\ cpc = <<>>
    /\ chandle = <<>>
    /\ cattempt = <<>>
    /\ issued = <<>>
    /\ ccalls = <<>>

InitFind ==
    /\ fpc = "start"
    /\ fkind = "none"
    /\ query \in Queries
    /\ all_refs \in RefResponses
    /\ find_result = NoResult
    /\ FlattenIdle
    /\ SearchIdle
    /\ RequestIdle /\ ConvertIdle /\ ServerIdle /\ ConcIdle

FindCity ==
    /\ fpc = "start"
    /\ fpc' = "done"
    /\ fkind' = "city"
    /\ find_result' = find_city(all_refs, query)
    /\ UNCHANGED <<query, all_refs>>
    /\ UNCHANGED <<flattenVars, smartVars, searchVars, otherVars>>

FindCountry ==
    /\ fpc = "start"
    /\ fpc' = "done"
    /\ fkind' = "country"
    /\ find_result' = find_country(all_refs, query)
    /\ UNCHANGED <<query, all_refs>>
    /\ UNCHANGED <<flattenVars, smartVars, searchVars, otherVars>>

NextFind == FindCity \/ FindCountry

SpecFind == InitFind /\ [][NextFind]_vars

-----------------------------------------------------------------------------
(* The flattener's inputs and its specification *)

MaxHotels == 2
MaxTours == 2
MaxLimit == 3

\* the price field of an upstream tour: a number, a numeric string, text, or absent
Prices == {PyNum(2), PyStr("10"), PyStr("9"), PyStr("n/a")}

TourOf(h, i, p) == [tourid |-> PyStr(ToString(10 * h + i)), price |-> p]

\* the tours of hotel h: every list of at most MaxTours tours
TourLists(h) ==
    UNION {{[i \in 1..k |-> IF ps[i] = PyNone THEN [tourid |-> PyStr(ToString(10 * h + i))]
                            ELSE TourOf(h, i, ps[i])]
            : ps \in [1..k -> Prices \cup {PyNone}]} : k \in 0..MaxTours}

\* the shapes the provider gives a hotel's tours: wrapped list, bare list,
\* wrapped single object, or no tours key at all
HotelsAt(h) ==
    LET base == [hotelcode |-> PyNum(h), hotelname |-> PyStr(ToString(h))]
        With(tours) == [hotelcode |-> base.hotelcode, hotelname |-> base.hotelname,
                        tours |-> tours]
    IN  {base}
        \cup {With(PyDict([tour |-> PyList(l)])) : l \in TourLists(h)}
        \cup {With(PyList(l)) : l \in TourLists(h)}
        \cup {With(PyDict([tour |-> PyDict(l[1])])) : l \in {x \in TourLists(h) : Len(x) = 1}}

RECURSIVE HotelListsOf(_)
HotelListsOf(k) ==
    IF k = 0 THEN {<<>>}
    ELSE {Append(hs, h) : hs \in HotelListsOf(k - 1), h \in HotelsAt(k)}

HotelLists == UNION {HotelListsOf(k) : k \in 0..MaxHotels}

RawResults ==
    ErrorEnvelopes
    \cup {[iserror |-> FALSE]}
    \cup {[iserror |-> FALSE, hotel |-> PyList(hs)] : hs \in HotelLists}
    \cup {[iserror |-> FALSE, hotel |-> PyDict(h)] : h \in HotelsAt(1)}

Limits == {PyNone} \cup {PyNum(n) : n \in 0..MaxLimit}

InitFlatten ==
    /\ lpc = "start"
    /\ search_result \in RawResults
    /\ limit \in Limits
    /\ flat_result = [raised |-> FALSE, tours |-> <<>>]
    /\ ResolverIdle
    /\ SearchIdle
    /\ RequestIdle /\ ConvertIdle /\ ServerIdle /\ ConcIdle

Flatten ==
    /\ lpc = "start"
    /\ lpc' = "done"
    /\ flat_result' = flatten_tours(search_result, limit)
    /\ UNCHANGED <<search_result, limit>>
    /\ UNCHANGED <<resolverVars, smartVars, searchVars, otherVars>>

NextFlatten == Flatten

SpecFlatten == InitFlatten /\ [][NextFlatten]_vars

-----------------------------------------------------------------------------
(* The searches' inputs and their specification *)

MaxSmartEntries == 2

\* the reference lists the provider answers a smart search with
SmartRefLists ==
    UNION {{[i \in 1..k |-> RefEntry(i, names[i])] : names \in [1..k -> EntryNames]}
           : k \in 0..MaxSmartEntries}

SmartRefResponses ==
    ErrorEnvelopes \cup {[iserror |-> FALSE, lists |-> l] : l \in SmartRefLists}

SmartNames == {<<"a">>, <<"b", "b">>}

\* params of a search: loosely typed, with or without departure / country keys
ParamSets ==
    {<<>>,
     [adults |-> PyStr("2"), nightsfrom |-> PyStr("week")],
     [departure |-> PyNum(99), childage1 |-> PyNone],
     [departure |-> PyStr("1"), country |-> PyNum(4), datefrom |-> PyStr("01.06")]}

RequestIds == {"r1", "r2"}

\* answers of search.php: an error, a handle, or a body without a usable handle
SubmitResponses ==
    ErrorEnvelopes
    \cup {[iserror |-> FALSE, result |-> [requestid |-> PyStr(id)]] : id \in RequestIds}
    \cup {[iserror |-> FALSE],
          [iserror |-> FALSE, result |-> <<>>],
          [iserror |-> FALSE, result |-> [requestid |-> PyStr("")]]}

\* answers of result.php?type=status
StatusResponses ==
    ErrorEnvelopes
    \cup {[iserror |-> FALSE],
          [iserror |-> FALSE, status |-> [state |-> PyStr("searching")]]}
    \cup {[iserror |-> FALSE,
           status |-> [state |-> PyStr(st), timepassed |-> PyNum(tp)]]
          : st \in {"searching", "finished"}, tp \in {0, 7, 8}}

\* answers of result.php?type=result; `hotel` stands for data.result.hotel and
\* `status` for data.status
FetchResponses ==
    ErrorEnvelopes
    \cup {[iserror |-> FALSE],
          [iserror |-> FALSE,
           status |-> [state |-> PyStr("finished"), toursfound |-> PyNum(3)],
           hotel |-> PyList(<<
               [hotelcode |-> PyNum(1), hotelname |-> PyStr("1"),
                tours |-> PyDict([tour |-> PyList(<<TourOf(1, 1, PyStr("10")),
                                                    TourOf(1, 2, PyNum(2))>>)])],
               [hotelcode |-> PyNum(2), hotelname |-> PyStr("2"),
                tours |-> PyDict([tour |-> PyDict(TourOf(2, 1, PyStr("9")))])]>>)],
          [iserror |-> FALSE,
           status |-> [state |-> PyStr("searching")],
           hotel |-> PyDict([hotelcode |-> PyNum(1), hotelname |-> PyStr("1"),
                             tours |-> PyList(<<[tourid |-> PyStr("11")]>>)])]}

Init ==
    /\ entry \in {"search_tours", "search_tours_smart"}
    /\ params \in ParamSets
    /\ IF entry = "search_tours_smart"
       THEN /\ pc = "find_city"
            /\ city_name \in SmartNames
            /\ country_name \in SmartNames
            /\ smart_limit \in {PyNum(DefaultLimit), PyNum(1)}
            /\ search_params = <<>>
       ELSE /\ pc = "submit"
            /\ city_name = <<>>
            /\ country_name = <<>>
            /\ smart_limit = PyNone
            /\ search_params = params
    /\ city_result = NoResult
    /\ country_result = NoResult
    /\ clean_params = <<>>
    /\ search_response = NoResponse
    /\ request_id = PyNone
    /\ attempt = 0
    /\ status_response = NoResponse
    /\ slept = 0
    /\ calls = <<>>
    /\ tours_result = NoResponse
    /\ smart_result = <<>>
    /\ ResolverIdle
    /\ FlattenIdle
    /\ RequestIdle /\ ConvertIdle /\ ServerIdle /\ ConcIdle

\* search_tours returns tr; a smart search goes on to its own return
Return(tr) ==
    /\ pc' = "done"
    /\ tours_result' = tr
    /\ smart_result' = IF entry = "search_tours_smart" THEN SmartReturn(tr)
                       ELSE smart_result

\* search_tours_smart, step 1: the city lookup
SmartFindCity ==
    /\ pc = "find_city"
    /\ \E resp \in SmartRefResponses :
          LET res == find_city(resp, city_name)
          IN  /\ calls' = Append(calls, ListCall("departure"))
              /\ city_result' = res
              /\ pc' = AfterCity(res)
              /\ smart_result' = IF AfterCity(res) = "done"
                                 THEN CityNotFound(city_name, res)
                                 ELSE smart_result
    /\ UNCHANGED <<entry, city_name, country_name, params, smart_limit,
                   country_result, search_params>>
    /\ UNCHANGED <<clean_params, search_response, request_id, attempt,
                   status_response, slept, tours_result>>
    /\ UNCHANGED <<resolverVars, flattenVars, otherVars>>

\* search_tours_smart, steps 2 and 3: the country lookup and the merge
SmartFindCountry ==
    /\ pc = "find_country"
    /\ \E resp \in SmartRefResponses :
          LET res == find_country(resp, country_name)
          IN  /\ calls' = Append(calls, ListCall("country"))
              /\ country_result' = res
              /\ pc' = AfterCountry(res)
              /\ IF AfterCountry(res) = "done"
                 THEN /\ smart_result' = CountryNotFound(country_name, res)
                      /\ UNCHANGED search_params
                 ELSE /\ search_params' = SmartSearchParams(city_result.city.id,
                                                            res.country.id, params)
                      /\ UNCHANGED smart_result
    /\ UNCHANGED <<entry, city_name, country_name, params, smart_limit, city_result>>
    /\ UNCHANGED <<clean_params, search_response, request_id, attempt,
                   status_response, slept, tours_result>>
    /\ UNCHANGED <<resolverVars, flattenVars, otherVars>>

\* search_tours, step 1: coerce the params and submit the search
Submit ==
    /\ pc = "submit"
    /\ \E resp \in SubmitResponses :
          LET sent == convert_params(search_params)
          IN  /\ clean_params' = sent
              /\ calls' = Append(calls, SearchCall(sent))
              /\ search_response' = resp
              /\ IF resp.iserror
                 THEN Return(resp) /\ UNCHANGED <<request_id, attempt>>
                 ELSE IF Falsy(RequestIdOf(resp))
                 THEN Return(NoRequestId(resp, sent)) /\ UNCHANGED <<request_id, attempt>>
                 ELSE /\ request_id' = RequestIdOf(resp)
                      /\ attempt' = 0
                      /\ pc' = IF LoopContinues(0) THEN "poll" ELSE "fetch"
                      /\ UNCHANGED <<tours_result, smart_result>>
    /\ UNCHANGED <<entry, city_name, country_name, params, smart_limit, city_result,
                   country_result, search_params>>
    /\ UNCHANGED <<status_response, slept>>
    /\ UNCHANGED <<resolverVars, flattenVars, otherVars>>

\* search_tours, step 2: one turn of the poll loop
Poll ==
    /\ pc = "poll"
    /\ slept' = slept + SleepBefore(attempt)
    /\ \E resp \in StatusResponses :
          /\ calls' = Append(calls, StatusCall(request_id))
          /\ status_response' = resp
          /\ CASE PollOutcome(resp) = "return" ->
                    Return(resp) /\ UNCHANGED attempt
               [] PollOutcome(resp) = "break" ->
                    /\ pc' = "fetch"
                    /\ UNCHANGED <<attempt, tours_result, smart_result>>
               [] OTHER ->
                    /\ attempt' = attempt + 1
                    /\ pc' = IF LoopContinues(attempt + 1) THEN "poll" ELSE "fetch"
                    /\ UNCHANGED <<tours_result, smart_result>>
    /\ UNCHANGED <<entry, city_name, country_name, params, smart_limit, city_result,
                   country_result, search_params>>
    /\ UNCHANGED <<clean_params, search_response, request_id>>
    /\ UNCHANGED <<resolverVars, flattenVars, otherVars>>

\* search_tours, step 3: fetch the results and return them
Fetch ==
    /\ pc = "fetch"
    /\ \E resp \in FetchResponses :
          /\ calls' = Append(calls, ResultCall(request_id))
          /\ Return(resp)
    /\ UNCHANGED <<entry, city_name, country_name, params, smart_limit, city_result,
                   country_result, search_params>>
    /\ UNCHANGED <<clean_params, search_response, request_id, attempt,
                   status_response, slept>>
    /\ UNCHANGED <<resolverVars, flattenVars, otherVars>>

Next == SmartFindCity \/ SmartFindCountry \/ Submit \/ Poll \/ Fetch

Spec == Init /\ [][Next]_vars

-----------------------------------------------------------------------------
(* Upstream request executor: _make_request *)

base_url == <<"http://tourvisor.ru/xml">>

\* request_params = params.copy() plus the credentials and the format flag
RequestParams(ps) ==
    Merge(ps, [authlogin |-> PyStr("login"), authpass |-> PyStr("password"),
               format |-> PyStr("json")])

OutboundCall(ep, ps) ==
    [url |-> base_url \o <<"/", ep>>, params |-> RequestParams(ps)]

\* isinstance(data, dict) and data.get("iserror")
ReportsError(body) ==
    body.isdict /\ "iserror" \in DOMAIN body.value /\ body.value.iserror

\* except Exception as json_error: the body is not JSON
NotJsonEnvelope(status, text) ==
    [iserror |-> TRUE,
     errormessage |-> <<"API returned non-JSON. Status: ", ToString(status)>>,
     response_text |-> IF text # <<>> THEN Slice(text, 0, 500)
                       ELSE <<"Empty response">>]

HttpStatusEnvelope(status, body) ==
    [iserror |-> TRUE, errormessage |-> <<"HTTP ", ToString(status)>>,
     response |-> body.value]

\* the except clauses without the final `except Exception`
CatchTransportOnly(exc) ==
    CASE exc = "TimeoutException" ->
            [raised |-> FALSE,
             value |-> [iserror |-> TRUE,
                        errormessage |-> <<"TourVisor API request timeout (30 s)">>]]
      [] exc = "ConnectError" ->
            [raised |-> FALSE,
             value |-> [iserror |-> TRUE,
                        errormessage |-> <<"could not connect to TourVisor API">>]]
      [] OTHER -> [raised |-> TRUE]

\* except httpx.TimeoutException / httpx.ConnectError / Exception
Catch(exc) ==
    CASE exc = "TimeoutException" ->
            [raised |-> FALSE,
             value |-> [iserror |-> TRUE,
                        errormessage |-> <<"TourVisor API request timeout (30 s)">>]]
      [] exc = "ConnectError" ->
            [raised |-> FALSE,
             value |-> [iserror |-> TRUE,
                        errormessage |-> <<"could not connect to TourVisor API">>]]
      [] OTHER ->
            [raised |-> FALSE,
             value |-> [iserror |-> TRUE,
                        errormessage |-> <<"connection error: ", exc>>]]

\* the body of the try block, given what client.get did
make_request(out) ==
    IF out.kind = "exception" THEN Catch(out.exc)
    ELSE IF ~out.body.json
    THEN [raised |-> FALSE, value |-> NotJsonEnvelope(out.status, out.body.text)]
    ELSE IF out.status # 200
    THEN (IF ReportsError(out.body)
          THEN [raised |-> FALSE, value |-> out.body.value]
          ELSE [raised |-> FALSE, value |-> HttpStatusEnvelope(out.status, out.body)])
    ELSE [raised |-> FALSE, value |-> out.body.value]

Endpoints ==
    {"list.php", "search.php", "result.php", "actualize.php", "actdetail.php",
     "hotel.php", "hottours.php"}

\* what the provider may send back as a body
Bodies ==
    {[json |-> FALSE, text |-> <<>>],
     [json |-> FALSE, text |-> <<"<", "h", "t", "m", "l", ">">>],
     [json |-> TRUE, isdict |-> FALSE, value |-> PyList(<<>>)],
     [json |-> TRUE, isdict |-> TRUE,
      value |-> [iserror |-> TRUE, errormessage |-> <<"Wrong login">>]],
     [json |-> TRUE, isdict |-> TRUE, value |-> [iserror |-> TRUE]],
     [json |-> TRUE, isdict |-> TRUE, value |-> [iserror |-> FALSE]],
     [json |-> TRUE, isdict |-> TRUE,
      value |-> [result |-> [requestid |-> PyStr("r1")]]]}

StatusCodes == {200, 404, 500}

Outcomes ==
    {[kind |-> "exception", exc |-> e]
        : e \in {"TimeoutException", "ConnectError", "ReadError", "ValueError"}}
    \cup {[kind |-> "response", status |-> st, body |-> b]
             : st \in StatusCodes, b \in Bodies}

InitRequest ==
    /\ rpc = "start"
    /\ endpoint \in Endpoints
    /\ req_params \in ParamSets
    /\ outcome \in Outcomes
    /\ request_sent = <<>>
    /\ ret = [raised |-> FALSE]
    /\ ResolverIdle /\ FlattenIdle /\ SearchIdle
    /\ ConvertIdle /\ ServerIdle /\ ConcIdle

MakeRequest ==
    /\ rpc = "start"
    /\ rpc' = "done"
    /\ request_sent' = Append(request_sent, OutboundCall(endpoint, req_params))
    /\ ret' = make_request(outcome)
    /\ UNCHANGED <<endpoint, req_params, outcome>>
    /\ UNCHANGED <<resolverVars, flattenVars, smartVars, searchVars,
                   convertVars, serverVars, concVars>>

NextRequest == MakeRequest

SpecRequest == InitRequest /\ [][NextRequest]_vars

-----------------------------------------------------------------------------
(* The inputs of _convert_params and its specification *)

\* two listed numeric fields and one unlisted field
ConvertKeys == {"adults", "priceto", "datefrom"}

\* what json.loads can put under a key
ConvertValues ==
    {PyNum(2), PyStr("2"), PyStr("week"), PyNone, PyFloat(2, 7), PyInf,
     PyList(<<>>)}

ConvertInputs ==
    UNION {[keys -> ConvertValues] : keys \in SUBSET ConvertKeys}

InitConvert ==
    /\ kpc = "start"
    /\ kparams \in ConvertInputs
    /\ converted = [raised |-> FALSE]
    /\ reconverted = [raised |-> FALSE]
    /\ ResolverIdle /\ FlattenIdle /\ SearchIdle
    /\ RequestIdle /\ ServerIdle /\ ConcIdle

\* _convert_params(params), then _convert_params of what it returned
Convert ==
    /\ kpc = "start"
    /\ kpc' = "done"
    /\ converted' = convert_call(kparams)
    /\ reconverted' = IF convert_raises(kparams) THEN [raised |-> TRUE]
                      ELSE convert_call(convert_params(kparams))
    /\ UNCHANGED kparams
    /\ UNCHANGED <<resolverVars, flattenVars, smartVars, searchVars,
                   requestVars, serverVars, concVars>>

NextConvert == Convert

SpecConvert == InitConvert /\ [][NextConvert]_vars

-----------------------------------------------------------------------------
(* HTTP endpoints: server.py *)

Routes ==
    {"/search_tours_smart", "/find_city", "/find_country", "/get_references",
     "/search_tours", "/actualize_tour", "/get_tour_details", "/get_hotel_info",
     "/get_hot_tours"}

\* the client method a POST handler ends in
ClientMethod(r) ==
    CASE r = "/search_tours_smart" -> "search_tours_smart"
      [] r = "/find_city" -> "find_city"
      [] r = "/find_country" -> "find_country"
      [] r = "/get_references" -> "get_references"
      [] r = "/search_tours" -> "search_tours"
      [] r = "/actualize_tour" -> "actualize_tour"
      [] r = "/get_tour_details" -> "get_tour_details"
      [] r = "/get_hotel_info" -> "get_hotel_info"
      [] OTHER -> "get_hot_tours"

\* data.get(a) or data.get(b)
GetEither(args, a, b) ==
    IF ~Falsy(Get(args, a)) THEN Get(args, a) ELSE Get(args, b)

\* the condition under which a handler raises HTTPException(status_code=400)
FieldCheckFails(r, args) ==
    CASE r = "/search_tours_smart" ->
            \/ Falsy(GetEither(args, "city_name", "city"))
            \/ Falsy(GetEither(args, "country_name", "country"))
      [] r = "/find_city" -> Falsy(GetEither(args, "city_name", "name"))
      [] r = "/find_country" -> Falsy(GetEither(args, "country_name", "name"))
      [] r = "/get_references" -> Falsy(Get(args, "ref_type"))
      [] r = "/search_tours" ->
            "departure" \notin DOMAIN args \/ "country" \notin DOMAIN args
      [] r \in {"/actualize_tour", "/get_tour_details"} -> Falsy(Get(args, "tourid"))
      [] r = "/get_hotel_info" -> Falsy(Get(args, "hotelcode"))
      [] OTHER -> "city" \notin DOMAIN args \/ "items" \notin DOMAIN args

\* the detail of that HTTPException
RequiredDetail(r) ==
    CASE r = "/search_tours_smart" -> <<"city_name and country_name are required">>
      [] r = "/find_city" -> <<"city_name is required">>
      [] r = "/find_country" -> <<"country_name is required">>
      [] r = "/get_references" -> <<"ref_type is required">>
      [] r = "/search_tours" -> <<"departure and country are required">>
      [] r \in {"/actualize_tour", "/get_tour_details"} -> <<"tourid is required">>
      [] r = "/get_hotel_info" -> <<"hotelcode is required">>
      [] OTHER -> <<"city and items are required">>

\* str(e) of an HTTPException: "<status>: <detail>", or the empty string in
\* releases of the framework without a __str__ of its own
StrOfHttpException(status, detail) ==
    {<<ToString(status), ": ">> \o detail, <<>>}

\* the fields a body for route r is built from
RouteFields(r) ==
    CASE r = "/search_tours_smart" ->
            {"city_name", "country_name", "city", "country", "adults"}
      [] r = "/find_city" -> {"city_name", "name"}
      [] r = "/find_country" -> {"country_name", "name"}
      [] r = "/get_references" -> {"ref_type", "country_code"}
      [] r = "/search_tours" -> {"departure", "country", "adults"}
      [] r \in {"/actualize_tour", "/get_tour_details"} -> {"tourid", "currency"}
      [] r = "/get_hotel_info" -> {"hotelcode", "reviews"}
      [] OTHER -> {"city", "items"}

\* a body: not JSON at all, or an object with some of the fields, null or set
RequestBodies(r) ==
    {[valid |-> FALSE]}
    \cup {[valid |-> TRUE, args |-> a]
             : a \in UNION {[keys -> {PyStr("1"), PyNone}]
                               : keys \in SUBSET RouteFields(r)}}

InitServer ==
    /\ hpc = "start"
    /\ route \in Routes
    /\ data \in RequestBodies(route)
    /\ client_calls = <<>>
    /\ http_response = [status |-> 0]
    /\ ResolverIdle /\ FlattenIdle /\ SearchIdle
    /\ RequestIdle /\ ConvertIdle /\ ConcIdle

\* one POST handler from extract_params to the HTTP response
Handle ==
    /\ hpc = "start"
    /\ hpc' = "done"
    /\ IF ~data.valid
       THEN \* json.loads raises; except json.JSONDecodeError
            /\ http_response' = [status |-> 400, detail |-> <<"Invalid JSON">>]
            /\ UNCHANGED client_calls
       ELSE IF FieldCheckFails(route, data.args)
       THEN \* the HTTPException raised inside the try block is an Exception:
            \* `except Exception as e` catches it and raises a 500 of str(e)
            /\ \E text \in StrOfHttpException(400, RequiredDetail(route)) :
                  http_response' = [status |-> 500, detail |-> text]
            /\ UNCHANGED client_calls
       ELSE /\ client_calls' = Append(client_calls, [method |-> ClientMethod(route)])
            /\ \E returns \in BOOLEAN :
                  http_response' = IF returns THEN [status |-> 200, detail |-> <<>>]
                                   ELSE [status |-> 500, detail |-> <<"error">>]
    /\ UNCHANGED <<route, data>>
    /\ UNCHANGED <<resolverVars, flattenVars, smartVars, searchVars,
                   requestVars, convertVars, concVars>>

NextServer == Handle

SpecServer == InitServer /\ [][NextServer]_vars

-----------------------------------------------------------------------------
(* Properties of the reference resolver (checked under SpecFind) *)

Entries == all_refs.lists
NormQuery == Strip(Lower(query))
ExactAt(i) == Lower(Entries[i].name) = NormQuery
PartialAt(i) == Contains(Lower(Entries[i].name), NormQuery)
ExactIdx == {i \in 1..Len(Entries) : ExactAt(i)}
PartialIdx == {i \in 1..Len(Entries) : PartialAt(i)}
MinOf(S) == CHOOSE i \in S : \A j \in S : i <= j
Primary == IF fkind = "city" THEN find_result.city ELSE find_result.country
ListFetched == fpc = "done" /\ ~all_refs.iserror

\* C4: for every query that is empty after trimming or that matches no entry,
\* and every reference list, find_city / find_country return found = false
\* with a non-empty message.
C4_EmptyOrUnmatchedNotFound ==
    (ListFetched /\ (NormQuery = <<>> \/ PartialIdx = {}))
        => /\ find_result.found = FALSE
           /\ "message" \in DOMAIN find_result
           /\ find_result.message # <<>>

\* C5: if some entry's name case-folds to exactly the trimmed, case-folded
\* query, the result is found = true with the first such entry as the sole
\* result and no alternatives, whatever other entries contain the query.
C5_ExactMatchSoleResult ==
    (ListFetched /\ ExactIdx # {})
        => /\ find_result.found = TRUE
           /\ "alternatives" \notin DOMAIN find_result
           /\ Primary.id = IntOf(Entries[MinOf(ExactIdx)].id)
           /\ Primary.name = Entries[MinOf(ExactIdx)].name
           /\ Lower(Primary.name) = NormQuery

\* C5 witness: an exact match that comes after an entry which merely contains
\* the query.
C5_Witness ==
    /\ ListFetched
    /\ ExactIdx # {}
    /\ \E j \in PartialIdx \ ExactIdx : j < MinOf(ExactIdx)

\* C6: with no exact match and at least one substring match, the primary
\* result is the first matching entry in list order and the alternatives are
\* the next matching entries in list order, at most 4, never the primary.
C6_PartialMatchOrder ==
    (ListFetched /\ ExactIdx = {} /\ PartialIdx # {})
        => LET Rank(i) == Cardinality({j \in PartialIdx : j <= i})
               alts == find_result.alternatives
               more == Cardinality(PartialIdx) - 1
           IN  /\ find_result.found = TRUE
               /\ Primary.id = IntOf(Entries[MinOf(PartialIdx)].id)
               /\ Primary.name = Entries[MinOf(PartialIdx)].name
               /\ Len(alts) = IF more < 4 THEN more ELSE 4
               /\ \A k \in 1..Len(alts) :
                     /\ alts[k].id # Primary.id
                     /\ \E i \in PartialIdx :
                           /\ Rank(i) = k + 1
                           /\ alts[k].id = IntOf(Entries[i].id)
                           /\ alts[k].name = Entries[i].name

\* C6 witness: six or more substring matches, so the cut at 4 drops one.
C6_Witness ==
    /\ ListFetched
    /\ ExactIdx = {}
    /\ NormQuery # <<>>
    /\ Cardinality(PartialIdx) >= 6
    /\ Len(find_result.alternatives) = 4

-----------------------------------------------------------------------------
(* Properties of the result flattener (checked under SpecFlatten) *)

Flattened == lpc = "done" /\ ~search_result.iserror
RawHotels == HotelsList(search_result)
\* the (hotel, tour) pairs of the raw result, as <<hotel index, tour index>>
RawPairs ==
    {<<h, i>> : h \in 1..Len(RawHotels), i \in 1..MaxTours + 1}
        \cap {pr \in (1..MaxHotels + 1) \X (1..MaxTours + 1) :
                 pr[1] <= Len(RawHotels) /\ pr[2] <= Len(ToursList(RawHotels[pr[1]]))}
PairTour(pr) == ToursList(RawHotels[pr[1]])[pr[2]]
\* the price a record is ordered by: its numeric price, else the sentinel
KeyOrSentinel(price) == IF Float(price).ok THEN Float(price).v ELSE PriceDefault
Shown == {flat_result.tours[k].tourid : k \in 1..Len(flat_result.tours)}

\* C7: the returned sequence is sorted by ascending numeric price; a tour with
\* a missing or non-numeric price does not make flattening fail and is ordered
\* as if its price were the sentinel.
C7_SortedSentinelLast ==
    Flattened
        => /\ ~flat_result.raised
           /\ \A i, j \in 1..Len(flat_result.tours) :
                 i < j => KeyOrSentinel(flat_result.tours[i].price)
                              <= KeyOrSentinel(flat_result.tours[j].price)

\* C8: for a non-error result with `total` tours and a non-negative integer
\* limit, exactly min(limit, total) records are returned and they are the
\* cheapest ones.
C8_TruncatedToLimit ==
    (Flattened /\ limit.t = "num")
        => LET total == Cardinality(RawPairs)
           IN  /\ ~flat_result.raised
               /\ Len(flat_result.tours) = IF limit.v < total THEN limit.v ELSE total
               /\ \A k \in 1..Len(flat_result.tours) : \A pr \in RawPairs :
                     PairTour(pr).tourid \notin Shown
                         => KeyOrSentinel(flat_result.tours[k].price)
                                <= KeyOrSentinel(Get(PairTour(pr), "price"))

\* C9: with no limit there is exactly one record per (hotel, tour) pair of the
\* raw result, and each record carries the attributes of the tour's hotel.
C9_OneRecordPerPair ==
    (Flattened /\ limit = PyNone)
        => /\ ~flat_result.raised
           /\ Len(flat_result.tours) = Cardinality(RawPairs)
           /\ \A pr \in RawPairs :
                 \E k \in 1..Len(flat_result.tours) :
                    /\ flat_result.tours[k].tourid = PairTour(pr).tourid
                    /\ flat_result.tours[k].hotelcode = RawHotels[pr[1]].hotelcode
                    /\ flat_result.tours[k].hotelname = RawHotels[pr[1]].hotelname
                    /\ \A m \in 1..Len(flat_result.tours) :
                          flat_result.tours[m].tourid = PairTour(pr).tourid => m = k

-----------------------------------------------------------------------------
(* Properties of search_tours and search_tours_smart (checked under Spec) *)

IsSubmit(c) == c.endpoint = "search.php"
IsPoll(c) == c.endpoint = "result.php" /\ c.params.type = PyStr("status")
IsFetch(c) == c.endpoint = "result.php" /\ c.params.type = PyStr("result")
SubmitIdx == {i \in 1..Len(calls) : IsSubmit(calls[i])}
PollIdx == {i \in 1..Len(calls) : IsPoll(calls[i])}
FetchIdx == {i \in 1..Len(calls) : IsFetch(calls[i])}
LastCall == calls[Len(calls)]
Smart == entry = "search_tours_smart"
\* the submit response carries no usable request handle
NoHandle(resp) ==
    \/ "result" \notin DOMAIN resp
    \/ "requestid" \notin DOMAIN resp.result
    \/ resp.result.requestid = PyStr("")

\* C1: once a request handle is obtained there are at most 10 status polls,
\* and when the poll loop ends (early exit or budget exhausted) exactly one
\* result fetch follows, also when "finished" was never reported.
C1_BoundedPollsThenOneFetch ==
    /\ Cardinality(PollIdx) <= 10
    /\ Cardinality(FetchIdx) <= 1
    /\ \A i \in FetchIdx : i = Len(calls) /\ PollIdx # {}
    /\ pc = "fetch" => /\ FetchIdx = {}
                       /\ IsPoll(LastCall)
                       /\ ~status_response.iserror
    /\ (pc = "done" /\ PollIdx # {} /\ ~status_response.iserror)
           => /\ Cardinality(FetchIdx) = 1
              /\ IsFetch(LastCall)
              /\ LastCall.params.requestid = request_id

\* C1 witness: the budget of 10 polls is used up without "finished" ever being
\* reported, and the fetch is made.
C1_Witness ==
    /\ pc = "done"
    /\ Cardinality(PollIdx) = 10
    /\ Cardinality(FetchIdx) = 1
    /\ Get(GetOr(status_response, "status", <<>>), "state") # PyStr("finished")

\* C2: in a smart search a submission is made only after the city and then
\* the country resolved with found = true; an unresolvable city returns
\* city_not_found with no country lookup and no submission, an unresolvable
\* country returns country_not_found with no submission.
C2_SubmitOnlyAfterBothResolved ==
    Smart =>
        /\ SubmitIdx # {}
               => /\ city_result.found /\ country_result.found
                  /\ SubmitIdx = {3}
                  /\ calls[1] = ListCall("departure")
                  /\ calls[2] = ListCall("country")
        /\ (calls # <<>> /\ ~city_result.found)
               => /\ pc = "done"
                  /\ smart_result.error = "city_not_found"
                  /\ smart_result.city_search = city_result
                  /\ calls = <<ListCall("departure")>>
        /\ (Len(calls) >= 2 /\ ~country_result.found)
               => /\ pc = "done"
                  /\ smart_result.error = "country_not_found"
                  /\ smart_result.country_search = country_result
                  /\ calls = <<ListCall("departure"), ListCall("country")>>

\* C2 witness: the city resolved, the country did not, and the search ended
\* after the two lookups.
C2_Witness ==
    /\ Smart
    /\ pc = "done"
    /\ city_result.found
    /\ ~country_result.found
    /\ Len(calls) = 2

\* C3: the departure and country codes a smart search sends to the
\* orchestrator are the codes resolved from the names, whatever the extra
\* params contain.
C3_ResolvedCodesWin ==
    (Smart /\ SubmitIdx # {})
        => /\ search_params.departure = PyNum(city_result.city.id)
           /\ search_params.country = PyNum(country_result.country.id)
           /\ \A i \in SubmitIdx :
                 /\ calls[i].params.departure = PyNum(city_result.city.id)
                 /\ calls[i].params.country = PyNum(country_result.country.id)

\* C10: an error at submission, a missing request handle, or an error in any
\* status poll ends search_tours with no further upstream call; it returns
\* the upstream error itself, or for a missing handle a "no request id" error
\* echoing the params sent.  A poll error is never retried.
C10_ErrorsShortCircuit ==
    /\ (SubmitIdx # {} /\ search_response.iserror)
           => /\ pc = "done"
              /\ tours_result = search_response
              /\ IsSubmit(LastCall)
    /\ (SubmitIdx # {} /\ ~search_response.iserror /\ NoHandle(search_response))
           => /\ pc = "done"
              /\ tours_result.iserror
              /\ tours_result.errormessage = <<"no request id received">>
              /\ tours_result.sent_params = LastCall.params
              /\ IsSubmit(LastCall)
    /\ status_response.iserror
           => /\ pc = "done"
              /\ tours_result = status_response
              /\ IsPoll(LastCall)
              /\ FetchIdx = {}

\* C10 witness: a status poll reports an error after an earlier poll went
\* through, and the search is over.
C10_Witness ==
    /\ pc = "done"
    /\ status_response.iserror
    /\ Cardinality(PollIdx) >= 2

\* the failure outcomes a state holds
CityFailed == Smart /\ calls # <<>> /\ ~city_result.found
CountryFailed == Smart /\ Len(calls) >= 2 /\ ~country_result.found
SearchFailed == pc = "done" /\ tours_result.iserror
SmartFailed == Smart /\ pc = "done" /\ "error" \in DOMAIN smart_result
\* the top-level keys an outcome uses for its error flag and for its message
FlagKeys(r) == DOMAIN r \cap {"iserror", "error", "success", "found"}
MessageKeys(r) == DOMAIN r \cap {"message", "errormessage"}
HasFlagAndMessage(r) == FlagKeys(r) # {} /\ MessageKeys(r) # {}
SameShape(r1, r2) == FlagKeys(r1) = FlagKeys(r2) /\ MessageKeys(r1) = MessageKeys(r2)

\* C11: every failure outcome the client functions return (resolver failures,
\* search_tours errors, city_not_found, country_not_found, search_failed) has
\* one uniform envelope shape with an error flag and a message at top level.
C11_UniformFailureEnvelope ==
    /\ CityFailed => HasFlagAndMessage(city_result)
    /\ CountryFailed => HasFlagAndMessage(country_result)
    /\ SearchFailed => HasFlagAndMessage(tours_result)
    /\ SmartFailed => HasFlagAndMessage(smart_result)
    /\ (CityFailed /\ SmartFailed) => SameShape(city_result, smart_result)
    /\ (CountryFailed /\ SmartFailed) => SameShape(country_result, smart_result)
    /\ (SearchFailed /\ SmartFailed) => SameShape(tours_result, smart_result)

-----------------------------------------------------------------------------
(* Properties of _make_request (checked under SpecRequest) *)

\* the outbound call failed: an exception, an unparsable body or a status
\* other than 200
FailedCall ==
    \/ outcome.kind = "exception"
    \/ ~outcome.body.json
    \/ outcome.status # 200

\* C12: whatever the single outbound call does, _make_request returns a value
\* and lets nothing escape; in every failure class the value is an error
\* envelope with the error flag set.
C12_NoFailureEscapes ==
    rpc = "done"
        => /\ ~ret.raised
           /\ Len(request_sent) = 1
           /\ FailedCall => /\ "iserror" \in DOMAIN ret.value
                            /\ ret.value.iserror = TRUE

\* C12 witness: a transport exception that is neither a timeout nor a
\* connection failure came back as an error envelope.
C12_Witness ==
    /\ rpc = "done"
    /\ outcome.kind = "exception"
    /\ outcome.exc \notin {"TimeoutException", "ConnectError"}
    /\ ~ret.raised
    /\ ret.value.iserror

-----------------------------------------------------------------------------
(* Properties of the poll loop's timing and exit (checked under Spec) *)

Polls == Cardinality(PollIdx)

\* C13: the first status poll is preceded by a suspension of 3 time units and
\* every later one by 2, so one search suspends for at most 3 + 9*2 = 21 time
\* units and makes at most 1 submit, 10 poll and 1 fetch call.
C13_SuspensionAndCallBudget ==
    /\ slept = (IF Polls = 0 THEN 0 ELSE 3 + 2 * (Polls - 1))
    /\ slept <= 21
    /\ Cardinality(SubmitIdx) <= 1
    /\ Polls <= 10
    /\ Cardinality(FetchIdx) <= 1

\* C13 witness: a search that used its whole poll budget and then fetched.
C13_Witness ==
    /\ pc = "done"
    /\ Polls = 10
    /\ slept = 21
    /\ Cardinality(SubmitIdx) = 1
    /\ Cardinality(FetchIdx) = 1

LastState == Get(GetOr(status_response, "status", <<>>), "state")
LastTimePassed == GetOr(GetOr(status_response, "status", <<>>), "timepassed", PyNum(0)).v
\* the latest status response ends the loop early
ExitResponse ==
    /\ Polls > 0
    /\ ~status_response.iserror
    /\ (LastState = PyStr("finished") \/ LastTimePassed > 7)
\* the latest status response is a plain "not yet"
GoOnResponse ==
    /\ Polls > 0
    /\ ~status_response.iserror
    /\ LastState # PyStr("finished")
    /\ LastTimePassed <= 7

\* C16: the loop exits at the first status response that is finished or whose
\* elapsed-time counter is strictly greater than 7, with no status call after
\* it (only the fetch follows); a non-error response that is neither, a
\* counter equal to 7 included, leads to another poll while fewer than 10
\* polls have been made.
C16_EarlyExitStrictlyPastSeven ==
    /\ ExitResponse
           => /\ pc \in {"fetch", "done"}
              /\ pc = "fetch" => IsPoll(LastCall)
              /\ pc = "done" => /\ IsFetch(LastCall)
                                /\ IsPoll(calls[Len(calls) - 1])
    /\ (GoOnResponse /\ Polls < 10) => pc = "poll"
    /\ (GoOnResponse /\ Polls = 10) => pc \in {"fetch", "done"}

\* C16 witness: a status response with the counter at exactly 7, not finished,
\* after which the loop is about to poll again.
C16_Witness ==
    /\ GoOnResponse
    /\ LastTimePassed = 7
    /\ Polls < 10
    /\ pc = "poll"

-----------------------------------------------------------------------------
(* Concurrent invocations of search_tours on one client *)

\* the length up to which the log of upstream calls is followed
MaxConcCalls == 6

\* two coroutines running search_tours on the same TourVisorClient; they
\* interleave at every await, that is around every upstream call
Invocations == {"A", "B"}

ConcSubmitResponses ==
    {[iserror |-> TRUE, errormessage |-> <<"HTTP 500">>]}
    \cup {[iserror |-> FALSE, result |-> [requestid |-> PyStr(id)]] : id \in RequestIds}

ConcStatusResponses ==
    {[iserror |-> TRUE, errormessage |-> <<"HTTP 500">>],
     [iserror |-> FALSE, status |-> [state |-> PyStr("searching")]],
     [iserror |-> FALSE, status |-> [state |-> PyStr("finished")]]}

\* the handle of the latest successful submission of any invocation: what a
\* handle kept on the client object would hold
HandleOnClient(inv) ==
    LET subs == {k \in 1..Len(ccalls) :
                    /\ ccalls[k].call.endpoint = "search.php"
                    /\ issued[ccalls[k].inv] # PyNone}
    IN  IF subs = {} THEN PyNone
        ELSE issued[ccalls[CHOOSE k \in subs : \A j \in subs : j <= k].inv]

\* request_id is a local variable of the invocation
HandleOf(inv) == chandle[inv]

InitConc ==
    /\ cpc = [i \in Invocations |-> "submit"]
    /\ chandle = [i \in Invocations |-> PyNone]
    /\ cattempt = [i \in Invocations |-> 0]
    /\ issued = [i \in Invocations |-> PyNone]
    /\ ccalls = <<>>
    /\ ResolverIdle /\ FlattenIdle /\ SearchIdle
    /\ RequestIdle /\ ConvertIdle /\ ServerIdle

ConcSubmit(inv) ==
    /\ cpc[inv] = "submit"
    /\ Len(ccalls) < MaxConcCalls
    /\ \E resp \in ConcSubmitResponses :
          /\ ccalls' = Append(ccalls, [inv |-> inv, call |-> SearchCall(<<>>)])
          /\ IF resp.iserror \/ Falsy(RequestIdOf(resp))
             THEN /\ cpc' = [cpc EXCEPT ![inv] = "done"]
                  /\ UNCHANGED <<chandle, issued>>
             ELSE /\ cpc' = [cpc EXCEPT ![inv] =
                                IF LoopContinues(0) THEN "poll" ELSE "fetch"]
                  /\ chandle' = [chandle EXCEPT ![inv] = RequestIdOf(resp)]
                  /\ issued' = [issued EXCEPT ![inv] = RequestIdOf(resp)]
    /\ UNCHANGED cattempt
    /\ UNCHANGED <<resolverVars, flattenVars, smartVars, searchVars,
                   requestVars, convertVars, serverVars>>

ConcPoll(inv) ==
    /\ cpc[inv] = "poll"
    /\ Len(ccalls) < MaxConcCalls
    /\ \E resp \in ConcStatusResponses :
          /\ ccalls' = Append(ccalls, [inv |-> inv, call |-> StatusCall(HandleOf(inv))])
          /\ CASE PollOutcome(resp) = "return" ->
                    /\ cpc' = [cpc EXCEPT ![inv] = "done"]
                    /\ UNCHANGED cattempt
               [] PollOutcome(resp) = "break" ->
                    /\ cpc' = [cpc EXCEPT ![inv] = "fetch"]
                    /\ UNCHANGED cattempt
               [] OTHER ->
                    /\ cattempt' = [cattempt EXCEPT ![inv] = @ + 1]
                    /\ cpc' = [cpc EXCEPT ![inv] =
                                  IF LoopContinues(cattempt[inv] + 1)
                                  THEN "poll" ELSE "fetch"]
    /\ UNCHANGED <<chandle, issued>>
    /\ UNCHANGED <<resolverVars, flattenVars, smartVars, searchVars,
                   requestVars, convertVars, serverVars>>

ConcFetch(inv) ==
    /\ cpc[inv] = "fetch"
    /\ Len(ccalls) < MaxConcCalls
    /\ ccalls' = Append(ccalls, [inv |-> inv, call |-> ResultCall(HandleOf(inv))])
    /\ cpc' = [cpc EXCEPT ![inv] = "done"]
    /\ UNCHANGED <<chandle, cattempt, issued>>
    /\ UNCHANGED <<resolverVars, flattenVars, smartVars, searchVars,
                   requestVars, convertVars, serverVars>>

NextConc ==
    \E inv \in Invocations : ConcSubmit(inv) \/ ConcPoll(inv) \/ ConcFetch(inv)

SpecConc == InitConc /\ [][NextConc]_vars

(* Properties of concurrent invocations (checked under SpecConc) *)

\* the status and result calls an invocation has made
CorrelatedCalls(inv) ==
    {k \in 1..Len(ccalls) :
        ccalls[k].inv = inv /\ ccalls[k].call.endpoint = "result.php"}
PollsOf(inv) ==
    {k \in CorrelatedCalls(inv) : IsPoll(ccalls[k].call)}

\* C14: in every interleaving of concurrent search_tours invocations each
\* status-poll and result-fetch call of an invocation carries exactly the
\* handle its own submit call returned, never another invocation's; its
\* attempt counter counts only its own polls.
C14_HandlesStayWithTheirInvocation ==
    \A inv \in Invocations :
        /\ \A k \in CorrelatedCalls(inv) :
              /\ issued[inv] # PyNone
              /\ ccalls[k].call.params.requestid = issued[inv]
        /\ chandle[inv] = issued[inv]
        /\ cattempt[inv] <= Cardinality(PollsOf(inv))
        /\ Cardinality(PollsOf(inv)) <= max_attempts

\* C14 witness: both invocations hold different handles and the second to
\* submit polled before the first did, then the first polled.
C14_Witness ==
    /\ issued["A"] # PyNone /\ issued["B"] # PyNone
    /\ issued["A"] # issued["B"]
    /\ \E k \in PollsOf("A") : \E j \in PollsOf("B") : j < k
    /\ \E k \in 1..Len(ccalls) :
          /\ ccalls[k].inv = "B" /\ IsSubmit(ccalls[k].call)
          /\ \E j \in 1..(k - 1) : ccalls[j].inv = "A" /\ IsSubmit(ccalls[j].call)

-----------------------------------------------------------------------------
(* Properties of the smart search's envelopes (checked under Spec) *)

\* both names resolved and search_tours returned a non-error result
SmartSearched ==
    /\ Smart
    /\ pc = "done"
    /\ city_result.found /\ country_result.found
    /\ FetchIdx # {}
    /\ ~tours_result.iserror
FetchedTours == FlatAll(HotelsList(tours_result), 1)

\* C15: when both names resolve and the orchestrator returns a non-error
\* result, the smart search returns an envelope with success = true, a tours
\* list that is the flattened result sorted ascending by price and cut to the
\* limit, status.tours_shown equal to the length of that list, and
\* status.state equal to the state reported in the fetched result.
C15_SuccessEnvelope ==
    SmartSearched
        => /\ "success" \in DOMAIN smart_result
           /\ smart_result.success = TRUE
           /\ Len(smart_result.tours) =
                 (IF smart_limit.v < Len(FetchedTours) THEN smart_limit.v
                  ELSE Len(FetchedTours))
           /\ \A i, j \in 1..Len(smart_result.tours) :
                 i < j => KeyOrSentinel(smart_result.tours[i].price)
                              <= KeyOrSentinel(smart_result.tours[j].price)
           /\ \A k \in 1..Len(smart_result.tours) :
                 \E n \in 1..Len(FetchedTours) : smart_result.tours[k] = FetchedTours[n]
           /\ smart_result.status.tours_shown = Len(smart_result.tours)
           /\ "status" \in DOMAIN tours_result
                  => smart_result.status.state = tours_result.status.state

-----------------------------------------------------------------------------
(* Properties of the resolver on a failed list fetch (checked under SpecFind) *)

FetchFailed == fpc = "done" /\ all_refs.iserror

\* C17: when the reference-list fetch reports an error, find_city and
\* find_country do no matching and return a resolution failure that carries
\* the upstream error message and is marked as an API error, which tells it
\* apart from the result for a fetched list in which no entry matched.
C17_FetchErrorIsNotNotFound ==
    /\ FetchFailed
           => /\ find_result.found = FALSE
              /\ DOMAIN find_result = {"found", "error", "message"}
              /\ find_result.error = "api_error"
              /\ "errormessage" \in DOMAIN all_refs
                     => find_result.message = all_refs.errormessage
              /\ find_result.message # <<>>
    /\ (ListFetched /\ ~find_result.found) => "error" \notin DOMAIN find_result

\* C17 witness: a lookup whose list fetch came back as an error envelope with
\* a message of its own.
C17_Witness ==
    /\ FetchFailed
    /\ "errormessage" \in DOMAIN all_refs
    /\ find_result.error = "api_error"
    /\ find_result.message = all_refs.errormessage

-----------------------------------------------------------------------------
(* Properties of _convert_params (checked under SpecConvert) *)

\* the values int() accepts
Coercible(x) ==
    \/ x.t \in {"num", "float"}
    \/ x.t = "str" /\ (\E n \in 0..99 : ToString(n) = x.v)

\* C18: _convert_params never fails and never mutates its input; the result
\* has exactly the input's keys; a coercible value of a listed numeric field
\* becomes an integer; a value that is not coercible, is null or belongs to an
\* unlisted field passes through unchanged; converting the result again
\* returns the same mapping.
C18_TotalKeyPreservingIdempotent ==
    kpc = "done"
        => /\ ~converted.raised
           /\ DOMAIN converted.value = DOMAIN kparams
           /\ \A key \in DOMAIN kparams :
                 IF key \in IntParams /\ Coercible(kparams[key])
                 THEN converted.value[key].t = "num"
                 ELSE converted.value[key] = kparams[key]
           /\ ~reconverted.raised
           /\ reconverted.value = converted.value

-----------------------------------------------------------------------------
(* Properties of the HTTP endpoints (checked under SpecServer) *)

\* the body is an object that leaves out a mandatory field of its route
OmitsMandatory ==
    /\ data.valid
    /\ LET has(f) == f \in DOMAIN data.args
       IN  CASE route = "/search_tours_smart" ->
                   \/ ~has("city_name") /\ ~has("city")
                   \/ ~has("country_name") /\ ~has("country")
             [] route = "/find_city" -> ~has("city_name") /\ ~has("name")
             [] route = "/find_country" -> ~has("country_name") /\ ~has("name")
             [] route = "/get_references" -> ~has("ref_type")
             [] route = "/search_tours" -> ~has("departure") \/ ~has("country")
             [] route \in {"/actualize_tour", "/get_tour_details"} -> ~has("tourid")
             [] route = "/get_hotel_info" -> ~has("hotelcode")
             [] OTHER -> ~has("city") \/ ~has("items")

\* C19: a request that omits a mandatory field of its endpoint is rejected
\* with HTTP status 400 and the detail naming the field, and no upstream call
\* is made for it.
C19_MissingFieldIs400 ==
    (hpc = "done" /\ OmitsMandatory)
        => /\ http_response.status = 400
           /\ http_response.detail = RequiredDetail(route)
           /\ client_calls = <<>>

-----------------------------------------------------------------------------
(* Properties of the smart search as a whole (checked under Spec) *)

ListIdx == {i \in 1..Len(calls) : calls[i].endpoint = "list.php"}
\* the stage of the pipeline an upstream call belongs to
Stage(c) ==
    IF c.endpoint = "list.php" THEN 1
    ELSE IF IsSubmit(c) THEN 2
    ELSE IF IsPoll(c) THEN 3
    ELSE 4
\* the outcome a returned smart search reports
SmartOutcome ==
    IF "success" \in DOMAIN smart_result /\ smart_result.success = TRUE
    THEN "success"
    ELSE IF "error" \in DOMAIN smart_result THEN smart_result.error
    ELSE "none"

\* C20: with every upstream call returning, a smart search ends in exactly one
\* of city_not_found, country_not_found, search_failed and success, after at
\* most 14 upstream calls: at most 2 reference-list calls, 1 submit, 10 status
\* polls and 1 result fetch, issued in that order.
C20_FourOutcomesWithinFourteenCalls ==
    Smart
        => /\ Len(calls) <= 14
           /\ Cardinality(ListIdx) <= 2
           /\ Cardinality(SubmitIdx) <= 1
           /\ Cardinality(PollIdx) <= 10
           /\ Cardinality(FetchIdx) <= 1
           /\ \A i, j \in 1..Len(calls) : i < j => Stage(calls[i]) <= Stage(calls[j])
           /\ pc # "done" => ENABLED Next
           /\ pc = "done"
                  => /\ SmartOutcome \in {"city_not_found", "country_not_found",
                                          "search_failed", "success"}
                     /\ SmartOutcome = "city_not_found" <=> ~city_result.found
                     /\ SmartOutcome = "country_not_found"
                            <=> (city_result.found /\ ~country_result.found)
                     /\ SmartOutcome = "search_failed"
                            <=> (SubmitIdx # {} /\ tours_result.iserror)

====
